---- MODULE Spec2Model ----
(***************************************************************************)
(* Model of the automation execution engine of apple_mail_mcp.py:          *)
(* run_applescript, its process-wide asyncio lock, its retry loop and its  *)
(* classification of attempt outcomes.                                     *)
(*                                                                         *)
(* Text is a sequence of one-character strings; a message is a sequence of *)
(* strings in which the fixed fragments of a format string are single      *)
(* elements and interpolated text keeps its characters.                    *)
(***************************************************************************)
EXTENDS Integers, Sequences, FiniteSets

\* ------------------------------------------------------------------ bounds
NumCalls == 2
MaxCancels == 1
\* no call starts more invocations than this (the loop allows MAX_RETRIES)
MaxInvocations == 4
\* lines of the text given to parse_email_list
MaxLines == 3

Calls == 1..NumCalls

\* --------------------------------------------------------- program constants
MAX_RETRIES == 3
INITIAL_BACKOFF_SECONDS == 2

\* ------------------------------------------------------------------- text
\* the characters str.strip() removes: those for which str.isspace() holds;
\* a character without an escape of its own is named by its code point
Whitespace ==
  { "\t", "\n", "U+000B", "\f", "\r", "U+001C", "U+001D", "U+001E", "U+001F",
    " ", "U+0085", "U+00A0", "U+1680", "U+2000", "U+2001", "U+2002", "U+2003",
    "U+2004", "U+2005", "U+2006", "U+2007", "U+2008", "U+2009", "U+200A",
    "U+2028", "U+2029", "U+202F", "U+205F", "U+3000" }

RECURSIVE lstrip(_)
lstrip(s) ==
  IF s = <<>> THEN <<>>
  ELSE IF Head(s) \in Whitespace THEN lstrip(Tail(s)) ELSE s

RECURSIVE rstrip(_)
rstrip(s) ==
  IF s = <<>> THEN <<>>
  ELSE IF s[Len(s)] \in Whitespace THEN rstrip(SubSeq(s, 1, Len(s) - 1)) ELSE s

\* a plausible slip: only the leading whitespace is removed
strip_leading_only(s) == lstrip(s)

\* str.strip()
strip(s) == rstrip(lstrip(s))

Digits == <<"0", "1", "2", "3", "4", "5", "6", "7", "8", "9">>

RECURSIVE ToStr(_)
\* the decimal text of a non-negative integer, as an f-string formats it
ToStr(n) ==
  IF n < 10 THEN <<Digits[n + 1]>>
  ELSE ToStr(n \div 10) \o <<Digits[(n % 10) + 1]>>

\* "needle in str(e)", at the granularity of message fragments
Contains(msg, needle) == \E i \in DOMAIN msg : msg[i] = needle

\* ----------------------------------------------------------------- inputs
\* sample standard-output / standard-error texts of one interpreter run
Texts ==
  { <<>>, <<" ">>, <<"a">>, <<" ", "a", " ">>, <<"a", " ", "a">>,
    <<"\f", "a", "U+0085", "\n">> }

ExitCodes == {0, 1, 2}

TimeoutExpiredText ==
  <<"Command '['osascript', '-e', script]' timed out after 120 seconds">>
FileNotFoundText == <<"[Errno 2] No such file or directory: 'osascript'">>
PermissionText == <<"[Errno 13] Permission denied: 'osascript'">>
\* an unexpected failure whose own text happens to contain "AppleScript error"
LookalikeText == <<"unexpected: ", "AppleScript error", " in helper">>

NoText == <<>>

\* subprocess.run returned a CompletedProcess
Completed(rc, out, err) ==
  [kind |-> "completed", returncode |-> rc, stdout |-> out, stderr |-> err,
   type |-> "none", msg |-> NoText]

\* subprocess.run raised
Raised(t, m) ==
  [kind |-> "raised", returncode |-> 0, stdout |-> NoText, stderr |-> NoText,
   type |-> t, msg |-> m]

\* every way one blocking subprocess.run(['osascript', '-e', script], ...) ends
Outcomes ==
  { Completed(0, t, NoText) : t \in Texts }
    \cup { Completed(rc, NoText, t) : rc \in ExitCodes \ {0}, t \in Texts }
    \cup { Raised("TimeoutExpired", TimeoutExpiredText),
           Raised("FileNotFoundError", FileNotFoundText),
           Raised("PermissionError", PermissionText),
           Raised("RuntimeError", LookalikeText) }

\* ------------------------------------------------------- run_applescript body
\* what one pass through the try statement does next
Return(v) == [ctl |-> "return", value |-> v, sleep |-> 0]
Raise(m) == [ctl |-> "raise", value |-> m, sleep |-> 0]
Sleep(t) == [ctl |-> "sleep", value |-> NoText, sleep |-> t]

UnknownScriptErrorText == <<"Unknown AppleScript error">>

error_msg(stderr) ==
  IF stderr # <<>> THEN strip(stderr) ELSE UnknownScriptErrorText

ScriptErrorText(rc, stderr) ==
  <<"AppleScript error", " (code ">> \o ToStr(rc) \o <<"): ">> \o error_msg(stderr)

TimedOutText ==
  <<"AppleScript execution timed out after ">> \o ToStr(MAX_RETRIES)
    \o <<" attempts. ", "Apple Mail may be unresponsive.">>

InterpreterMissingText ==
  <<"osascript not found. This tool requires macOS with AppleScript support.">>

ExecutionFailedText(m) == <<"AppleScript execution failed: ">> \o m

FallThroughText(last_exception) ==
  <<"AppleScript execution failed after ">> \o ToStr(MAX_RETRIES)
    \o <<" attempts: ">> \o last_exception

backoff_time_linear(attempt) == INITIAL_BACKOFF_SECONDS * (2 * attempt)

backoff_time(attempt) == INITIAL_BACKOFF_SECONDS * (2 ^ attempt)

sleeps_before_retry_always(attempt) == attempt < MAX_RETRIES

\* "if attempt < MAX_RETRIES - 1" in the TimeoutExpired handler
sleeps_before_retry(attempt) == attempt < MAX_RETRIES - 1

next_attempt_stuck(attempt) == attempt

\* the value "for attempt in range(MAX_RETRIES)" takes after the given one
next_attempt(attempt) == attempt + 1

body_exception_ignoring_returncode(o) ==
  IF o.kind = "raised" THEN [type |-> o.type, msg |-> o.msg]
  ELSE [type |-> "none", msg |-> NoText]

body_exception_retrying_script_errors(o) ==
  IF o.kind = "raised" THEN [type |-> o.type, msg |-> o.msg]
  ELSE IF o.returncode # 0
    THEN [type |-> "TimeoutExpired", msg |-> ScriptErrorText(o.returncode, o.stderr)]
    ELSE [type |-> "none", msg |-> NoText]

\* the exception the try body itself raises, or "none"
body_exception(o) ==
  IF o.kind = "raised" THEN [type |-> o.type, msg |-> o.msg]
  ELSE IF o.returncode # 0
    THEN [type |-> "Exception", msg |-> ScriptErrorText(o.returncode, o.stderr)]
    ELSE [type |-> "none", msg |-> NoText]

except_clause_retrying_missing(type) ==
  CASE type = "TimeoutExpired" -> "TimeoutExpired"
    [] type = "FileNotFoundError" -> "TimeoutExpired"
    [] OTHER -> "Exception"

except_clause_retrying_unexpected(type) ==
  CASE type = "TimeoutExpired" -> "TimeoutExpired"
    [] type = "FileNotFoundError" -> "FileNotFoundError"
    [] OTHER -> "TimeoutExpired"

\* the except clause that catches an exception of the given type
except_clause(type) ==
  CASE type = "TimeoutExpired" -> "TimeoutExpired"
    [] type = "FileNotFoundError" -> "FileNotFoundError"
    [] OTHER -> "Exception"

\* one pass of the loop body for the attempt with the given zero-based index
try_attempt(o, attempt) ==
  LET e == body_exception(o) IN
  IF e.type = "none" THEN Return(strip(o.stdout))
  ELSE CASE except_clause(e.type) = "TimeoutExpired" ->
              IF sleeps_before_retry(attempt)
                THEN Sleep(backoff_time(attempt))
                ELSE Raise(TimedOutText)
         [] except_clause(e.type) = "FileNotFoundError" ->
              Raise(InterpreterMissingText)
         [] OTHER ->
              IF Contains(e.msg, "AppleScript error")
                THEN Raise(e.msg)
                ELSE Raise(ExecutionFailedText(e.msg))

\* -------------------------------------------------------- parse_email_list
\* One element of a text is one code point; the glyphs are named by theirs.
ENVELOPE == "U+2709"
CHECK == "U+2713"
HEAVY_LINE == "U+2501"
E_MAIL == "U+1F4E7"
WARNING == "U+26A0"

FROM_PREFIX == <<"F", "r", "o", "m", ":">>
DATE_PREFIX == <<"D", "a", "t", "e", ":">>
PREVIEW_PREFIX == <<"P", "r", "e", "v", "i", "e", "w", ":">>
TOTAL_PREFIX ==
  <<"T", "O", "T", "A", "L", " ", "E", "M", "A", "I", "L", "S">>

\* str.startswith
StartsWith(line, prefix) ==
  Len(line) >= Len(prefix) /\ SubSeq(line, 1, Len(prefix)) = prefix

\* line[n:]
Slice(line, n) == SubSeq(line, n + 1, Len(line))

RECURSIVE split(_)
\* str.split('\n')
split(s) ==
  IF \A i \in DOMAIN s : s[i] # "\n" THEN <<s>>
  ELSE LET i == CHOOSE k \in DOMAIN s :
                  s[k] = "\n" /\ \A j \in 1..(k - 1) : s[j] # "\n"
       IN <<SubSeq(s, 1, i - 1)>> \o split(Slice(s, i))

RECURSIVE Join(_)
\* '\n'.join(ls)
Join(ls) ==
  IF ls = <<>> THEN <<>>
  ELSE IF Len(ls) = 1 THEN ls[1]
  ELSE ls[1] \o <<"\n">> \o Join(Tail(ls))

\* a dict with keys among subject, is_read, sender, date, preview; the value
\* of an absent key is held at a fixed default, so that = is dict equality
EmptyEmail ==
  [keys |-> {}, subject |-> NoText, is_read |-> FALSE, sender |-> NoText,
   date |-> NoText, preview |-> NoText]

\* "if current_email"
Truthy(email) == email.keys # {}

\* "current_email in emails"
InList(email, list) == \E k \in DOMAIN list : list[k] = email

\* "if not line or line.startswith('=') or ..."
skipped(line) ==
  \/ line = <<>>
  \/ StartsWith(line, <<"=">>)
  \/ StartsWith(line, <<HEAVY_LINE>>)
  \/ StartsWith(line, <<E_MAIL>>)
  \/ StartsWith(line, <<WARNING>>)

starts_record_by_default(line) ==
  ~ \/ StartsWith(line, FROM_PREFIX)
    \/ StartsWith(line, DATE_PREFIX)
    \/ StartsWith(line, PREVIEW_PREFIX)
    \/ StartsWith(line, TOTAL_PREFIX)

\* "if line.startswith('U+2709') or line.startswith('U+2713')"
starts_record(line) ==
  StartsWith(line, <<ENVELOPE>>) \/ StartsWith(line, <<CHECK>>)

stops_scan_never(line) == FALSE

\* "elif line.startswith('TOTAL EMAILS')"
stops_scan(line) == StartsWith(line, TOTAL_PREFIX)

field_value_untrimmed(line, n) == Slice(line, n)

\* "line[5:].strip()", "line[8:].strip()"
field_value(line, n) == strip(Slice(line, n))

\* the dict assigned to current_email at a record-start line
new_email(line) ==
  [EmptyEmail EXCEPT !.keys = {"subject", "is_read"},
                     !.subject = strip(Slice(line, 2)),
                     !.is_read = StartsWith(line, <<CHECK>>)]

\* one pass of the for loop body over the given raw line
loop_body(st, raw) ==
  LET line == strip(raw) IN
  IF skipped(line) THEN st
  ELSE IF starts_record(line) THEN
    [emails |-> IF Truthy(st.current_email)
                  THEN Append(st.emails, st.current_email) ELSE st.emails,
     current_email |-> new_email(line),
     stop |-> FALSE]
  ELSE IF StartsWith(line, FROM_PREFIX) THEN
    [st EXCEPT !.current_email.keys = @ \cup {"sender"},
               !.current_email.sender = field_value(line, 5)]
  ELSE IF StartsWith(line, DATE_PREFIX) THEN
    [st EXCEPT !.current_email.keys = @ \cup {"date"},
               !.current_email.date = field_value(line, 5)]
  ELSE IF StartsWith(line, PREVIEW_PREFIX) THEN
    [st EXCEPT !.current_email.keys = @ \cup {"preview"},
               !.current_email.preview = field_value(line, 8)]
  ELSE IF stops_scan(line) THEN
    [emails |-> IF Truthy(st.current_email)
                  THEN Append(st.emails, st.current_email) ELSE st.emails,
     current_email |-> st.current_email,
     stop |-> TRUE]
  ELSE st

after_loop_inserting_first(st) ==
  IF Truthy(st.current_email) /\ ~InList(st.current_email, st.emails)
    THEN <<st.current_email>> \o st.emails
    ELSE st.emails

\* the statements after the loop: the list that is returned
after_loop(st) ==
  IF Truthy(st.current_email) /\ ~InList(st.current_email, st.emails)
    THEN Append(st.emails, st.current_email)
    ELSE st.emails

RECURSIVE scan(_, _, _)
\* the for loop from the line at position i on
scan(st, ls, i) ==
  IF i > Len(ls) \/ st.stop THEN st
  ELSE scan(loop_body([st EXCEPT !.stop = FALSE], ls[i]), ls, i + 1)

parse_email_list(text) ==
  after_loop(scan([emails |-> <<>>, current_email |-> EmptyEmail,
                   stop |-> FALSE], split(text), 1))

\* sample lines of the text a script prints
SampleLines ==
  { <<ENVELOPE, " ", "a">>,
    <<CHECK, " ", "a">>,
    <<ENVELOPE, "b">>,
    <<" ", "U+00A0", "F", "r", "o", "m", ":", " ", "x", "\r">>,
    <<"D", "a", "t", "e", ":", " ", "d">>,
    <<"P", "r", "e", "v", "i", "e", "w", ":", "p">>,
    <<"T", "O", "T", "A", "L", " ", "E", "M", "A", "I", "L", "S", ":", " ", "1">>,
    <<>>,
    <<"=", "=">>,
    <<HEAVY_LINE, HEAVY_LINE>>,
    <<E_MAIL, " ", "I">>,
    <<WARNING, " ", "F", "r", "o", "m", ":">>,
    <<"z", "z">> }

\* the texts of at most MaxLines sample lines
Inputs ==
  { Join(ls) : ls \in UNION { [1..n -> SampleLines] : n \in 0..MaxLines } }

\* ------------------------------------------------------------------ state
VARIABLES
  pc,                 \* where each call of run_applescript is
  _applescript_lock,  \* the asyncio.Lock: _locked, _waiters and their futures
  attempt,            \* the loop variable of each call
  last_exception,     \* the local of the same name, as text
  invocations,        \* subprocess.run calls each call handed to a worker
                      \* thread, less one cancelled before a worker took it
  outcomes,           \* how each of them ended, in order
  waits,              \* the asyncio.sleep durations of each call, in order
  ret,                \* what each call returned or raised
  running,            \* calls whose subprocess.run is with a worker thread:
                      \* its osascript process is alive or about to start
  cancels             \* cancellations delivered so far

evars ==
  <<pc, _applescript_lock, attempt, last_exception, invocations, outcomes,
    waits, ret, running, cancels>>

\* one call of parse_email_list
VARIABLES
  output,         \* its argument
  lines,          \* output.split('\n')
  idx,            \* the position in lines of the line the loop takes next
  emails,         \* the list it builds
  current_email,  \* the dict of the open record
  ppc,            \* "off", "scan", "after_loop" or "returned"
  other           \* the frame of a second call of parse_email_list, made
                  \* while the first is under way or after it: its own
                  \* output, lines, idx, emails, current_email and ppc

pvars == <<output, lines, idx, emails, current_email, ppc, other>>

\* one call of a tool
VARIABLES
  request,        \* the tool called and its arguments
  script,         \* the script it handed to run_applescript, if any
  reply,          \* what the tool returned or raised
  tpc             \* "off", "idle", "running" or "returned"

tvars == <<request, script, reply, tpc>>

vars == <<evars, pvars, tvars>>

NoResult == [status |-> "none", value |-> NoText]

\* ------------------------------------------------------------ asyncio.Lock
acquires_at_once_ignoring_locked(lock) ==
  \A i \in DOMAIN lock.waiters : lock.fut[lock.waiters[i]] = "cancelled"

\* the fast path of Lock.acquire
acquires_at_once(lock) ==
  /\ ~lock.locked
  /\ \A i \in DOMAIN lock.waiters : lock.fut[lock.waiters[i]] = "cancelled"

enqueue(lock, c) ==
  [lock EXCEPT !.waiters = Append(@, c), !.fut[c] = "pending"]

wake_up_first_never(lock) == lock

\* Lock._wake_up_first
wake_up_first(lock) ==
  IF lock.waiters = <<>> THEN lock
  ELSE IF lock.fut[Head(lock.waiters)] = "pending"
    THEN [lock EXCEPT !.fut[Head(lock.waiters)] = "done"]
    ELSE lock

RemoveWaiter(ws, c) == SelectSeq(ws, LAMBDA w : w # c)

release_never(lock) == lock

\* Lock.release, run by "async with" on every way out of its block
release(lock) == wake_up_first([lock EXCEPT !.locked = FALSE])

lock_released_while_sleeping(lock) == release(lock)

\* "await asyncio.sleep(backoff_time)" sits inside the "async with" block
lock_while_sleeping(lock) == lock

\* ------------------------------------------------------------------- Init
EngineInit ==
  /\ pc = [c \in Calls |-> "idle"]
  /\ _applescript_lock =
       [locked |-> FALSE, waiters |-> <<>>, fut |-> [c \in Calls |-> "none"]]
  /\ attempt = [c \in Calls |-> 0]
  /\ last_exception = [c \in Calls |-> NoText]
  /\ invocations = [c \in Calls |-> 0]
  /\ outcomes = [c \in Calls |-> <<>>]
  /\ waits = [c \in Calls |-> <<>>]
  /\ ret = [c \in Calls |-> NoResult]
  /\ running = {}
  /\ cancels = 0

\* the frame of a call that is not made
NoOther ==
  [output |-> NoText, lines |-> <<>>, idx |-> 0, emails |-> <<>>,
   current_email |-> EmptyEmail, ppc |-> "off", beside |-> FALSE]

\* no call of parse_email_list is under way
ParserOff ==
  /\ output = NoText
  /\ lines = <<>>
  /\ idx = 0
  /\ emails = <<>>
  /\ current_email = EmptyEmail
  /\ ppc = "off"
  /\ other = NoOther

\* a request with every argument at its default: of the arguments that
\* have one, scope = "account_overview" (get_statistics), confirm = False
\* and None for the optional texts
NoRequest ==
  [tool |-> "", action |-> "", scope |-> "account_overview",
   confirm |-> FALSE,
   account |-> NoText, subject |-> NoText, to |-> NoText, body |-> NoText,
   draft_subject |-> NoText, sender |-> NoText, subject_keyword |-> NoText]

\* no tool has been called
NoToolCall ==
  /\ request = NoRequest
  /\ script = <<>>
  /\ reply = NoResult

ToolsOff == NoToolCall /\ tpc = "off"

Init == EngineInit /\ ParserOff /\ ToolsOff

\* ---------------------------------------------------------------- actions
\* the lock is held: enter the loop and hand the first attempt to a worker thread
FirstAttempt(c) ==
  /\ pc' = [pc EXCEPT ![c] = "attempt"]
  /\ attempt' = [attempt EXCEPT ![c] = 0]
  /\ invocations' = [invocations EXCEPT ![c] = @ + 1]
  /\ running' = running \cup {c}

\* "async with _applescript_lock": the caller takes the free lock and starts
\* its first attempt, or queues up for the lock
Enter(c) ==
  /\ pc[c] = "idle"
  /\ IF acquires_at_once(_applescript_lock)
       THEN /\ _applescript_lock' = [_applescript_lock EXCEPT !.locked = TRUE]
            /\ FirstAttempt(c)
       ELSE /\ _applescript_lock' = enqueue(_applescript_lock, c)
            /\ pc' = [pc EXCEPT ![c] = "waiting"]
            /\ UNCHANGED <<attempt, invocations, running>>
  /\ UNCHANGED <<last_exception, outcomes, waits, ret, cancels>>

\* a caller enters run_applescript and reaches its first suspension point
Call(c) ==
  /\ Enter(c)
  /\ UNCHANGED <<pvars, tvars>>

\* a waiter whose future was set resumes inside Lock.acquire and takes the lock
Acquired(c) ==
  /\ pc[c] = "waiting"
  /\ _applescript_lock.fut[c] = "done"
  /\ _applescript_lock' =
       [_applescript_lock EXCEPT !.waiters = RemoveWaiter(@, c),
                                 !.fut[c] = "none",
                                 !.locked = TRUE]
  /\ FirstAttempt(c)
  /\ UNCHANGED <<last_exception, outcomes, waits, ret, cancels>>
  /\ UNCHANGED <<pvars, tvars>>

\* the worker thread's subprocess.run ends and the call resumes after its await
AttemptEnd(c) ==
  /\ pc[c] = "attempt"
  /\ c \in running
  /\ \E o \in Outcomes :
       LET step == try_attempt(o, attempt[c]) IN
       /\ outcomes' = [outcomes EXCEPT ![c] = Append(@, o)]
       /\ running' = running \ {c}
       /\ last_exception' =
            [last_exception EXCEPT
               ![c] = IF body_exception(o).type # "none"
                         /\ except_clause(body_exception(o).type) = "TimeoutExpired"
                        THEN body_exception(o).msg ELSE @]
       /\ IF step.ctl = "sleep"
            THEN /\ pc' = [pc EXCEPT ![c] = "backoff"]
                 /\ waits' = [waits EXCEPT ![c] = Append(@, step.sleep)]
                 /\ _applescript_lock' = lock_while_sleeping(_applescript_lock)
                 /\ UNCHANGED ret
            ELSE /\ pc' = [pc EXCEPT ![c] = "done"]
                 /\ ret' = [ret EXCEPT ![c] =
                              [status |-> step.ctl, value |-> step.value]]
                 /\ _applescript_lock' = release(_applescript_lock)
                 /\ UNCHANGED waits
  /\ UNCHANGED <<attempt, invocations, cancels>>
  /\ UNCHANGED <<pvars, tvars>>

\* asyncio.sleep(backoff_time) is over: the for loop takes its next value, or ends
BackoffEnd(c) ==
  /\ pc[c] = "backoff"
  /\ invocations[c] < MaxInvocations
  /\ IF next_attempt(attempt[c]) < MAX_RETRIES
       THEN /\ pc' = [pc EXCEPT ![c] = "attempt"]
            /\ attempt' = [attempt EXCEPT ![c] = next_attempt(@)]
            /\ invocations' = [invocations EXCEPT ![c] = @ + 1]
            /\ running' = running \cup {c}
            /\ UNCHANGED <<ret, _applescript_lock>>
       ELSE /\ pc' = [pc EXCEPT ![c] = "done"]
            /\ ret' = [ret EXCEPT ![c] =
                         [status |-> "raise",
                          value |-> FallThroughText(last_exception[c])]]
            /\ _applescript_lock' = release(_applescript_lock)
            /\ UNCHANGED <<attempt, invocations, running>>
  /\ UNCHANGED <<last_exception, outcomes, waits, cancels>>
  /\ UNCHANGED <<pvars, tvars>>

Next ==
  \E c \in Calls :
    \/ Call(c)
    \/ Acquired(c)
    \/ AttemptEnd(c)
    \/ BackoffEnd(c)

Spec == Init /\ [][Next]_vars

\* ------------------------------------------- callers that call again, fairly
\* the caller has its result and calls run_applescript once more
Again(c) ==
  /\ pc[c] = "done"
  /\ pc' = [pc EXCEPT ![c] = "idle"]
  /\ attempt' = [attempt EXCEPT ![c] = 0]
  /\ last_exception' = [last_exception EXCEPT ![c] = NoText]
  /\ invocations' = [invocations EXCEPT ![c] = 0]
  /\ outcomes' = [outcomes EXCEPT ![c] = <<>>]
  /\ waits' = [waits EXCEPT ![c] = <<>>]
  /\ ret' = [ret EXCEPT ![c] = NoResult]
  /\ UNCHANGED <<_applescript_lock, running, cancels>>
  /\ UNCHANGED <<pvars, tvars>>

NextLive ==
  \/ Next
  \/ \E c \in Calls : Again(c)

\* every subprocess.run ends (by exit or by timeout=120), every asyncio.sleep
\* ends, and the event loop resumes a waiter whose future is set
Fairness ==
  \A c \in Calls :
    /\ WF_vars(AttemptEnd(c))
    /\ WF_vars(BackoffEnd(c))
    /\ WF_vars(Acquired(c))

SpecLive == Init /\ [][NextLive]_vars /\ Fairness

\* ------------------------------------------------- cancellation of a caller
Cancelled == [status |-> "cancelled", value |-> NoText]

\* Task.cancel() reaches a caller suspended on its waiter future in Lock.acquire
CancelWaiting(c) ==
  /\ pc[c] = "waiting"
  /\ cancels < MaxCancels
  /\ cancels' = cancels + 1
  /\ pc' = [pc EXCEPT ![c] = "unwinding"]
  /\ _applescript_lock' =
       [_applescript_lock EXCEPT
          !.fut[c] = IF @ = "pending" THEN "cancelled" ELSE @]
  /\ UNCHANGED <<attempt, last_exception, invocations, outcomes, waits, ret,
                 running>>
  /\ UNCHANGED <<pvars, tvars>>

\* the cancelled waiter resumes: "finally" removes its future, the
\* CancelledError handler of Lock.acquire wakes the next waiter of a free lock
Unwind(c) ==
  /\ pc[c] = "unwinding"
  /\ pc' = [pc EXCEPT ![c] = "cancelled"]
  /\ ret' = [ret EXCEPT ![c] = Cancelled]
  /\ LET removed ==
           [_applescript_lock EXCEPT !.waiters = RemoveWaiter(@, c),
                                     !.fut[c] = "none"]
     IN _applescript_lock' =
          IF ~removed.locked THEN wake_up_first(removed) ELSE removed
  /\ UNCHANGED <<attempt, last_exception, invocations, outcomes, waits,
                 running, cancels>>
  /\ UNCHANGED <<pvars, tvars>>

\* Task.cancel() reaches a caller awaiting asyncio.to_thread: CancelledError
\* is no Exception, leaves the try and the "async with" (which releases the
\* lock). asyncio.to_thread had queued subprocess.run for a worker thread of
\* the executor, and the cancellation is passed on to that queue entry:
\* if a worker has taken the entry, its subprocess.run goes on running; if
\* none has yet, the entry is cancelled and subprocess.run is never called,
\* so the invocation counted when the attempt was handed over never started
CancelAttempt(c) ==
  /\ pc[c] = "attempt"
  /\ cancels < MaxCancels
  /\ cancels' = cancels + 1
  /\ pc' = [pc EXCEPT ![c] = "cancelled"]
  /\ ret' = [ret EXCEPT ![c] = Cancelled]
  /\ _applescript_lock' = release(_applescript_lock)
  /\ \/ UNCHANGED <<invocations, running>>
     \/ /\ invocations' = [invocations EXCEPT ![c] = @ - 1]
        /\ running' = running \ {c}
  /\ UNCHANGED <<attempt, last_exception, outcomes, waits>>
  /\ UNCHANGED <<pvars, tvars>>

\* Task.cancel() reaches a caller awaiting asyncio.sleep
CancelBackoff(c) ==
  /\ pc[c] = "backoff"
  /\ cancels < MaxCancels
  /\ cancels' = cancels + 1
  /\ pc' = [pc EXCEPT ![c] = "cancelled"]
  /\ ret' = [ret EXCEPT ![c] = Cancelled]
  /\ _applescript_lock' = release(_applescript_lock)
  /\ UNCHANGED <<attempt, last_exception, invocations, outcomes, waits,
                 running>>
  /\ UNCHANGED <<pvars, tvars>>

\* the subprocess.run of a cancelled caller ends in its worker thread, by
\* exit or by timeout=120; nobody awaits its result
AbandonedRunEnds(c) ==
  /\ pc[c] = "cancelled"
  /\ c \in running
  /\ running' = running \ {c}
  /\ UNCHANGED <<pc, _applescript_lock, attempt, last_exception, invocations,
                 outcomes, waits, ret, cancels>>
  /\ UNCHANGED <<pvars, tvars>>

NextCancel ==
  \/ Next
  \/ \E c \in Calls :
       \/ CancelWaiting(c)
       \/ Unwind(c)
       \/ CancelAttempt(c)
       \/ CancelBackoff(c)
       \/ AbandonedRunEnds(c)

SpecCancel == Init /\ [][NextCancel]_vars

\* ------------------------------------------------ a call of parse_email_list
InitParse ==
  /\ EngineInit
  /\ output \in Inputs
  /\ lines = split(output)
  /\ idx = 1
  /\ emails = <<>>
  /\ current_email = EmptyEmail
  /\ ppc = "scan"
  /\ other = NoOther
  /\ ToolsOff

next_line_same(i) == i

\* "for line in lines": the position of the line the next pass takes
next_line(i) == i + 1

\* one iteration of "for line in lines", with its break
ScanLine ==
  /\ ppc = "scan"
  /\ idx <= Len(lines)
  /\ LET st == loop_body([emails |-> emails, current_email |-> current_email,
                          stop |-> FALSE], lines[idx])
     IN /\ emails' = st.emails
        /\ current_email' = st.current_email
        /\ ppc' = IF st.stop \/ idx = Len(lines) THEN "after_loop" ELSE "scan"
  /\ idx' = next_line(idx)
  /\ UNCHANGED <<output, lines, other>>
  /\ UNCHANGED <<evars, tvars>>

\* the statements after the loop, and the return
ReturnEmails ==
  /\ ppc = "after_loop"
  /\ emails' = after_loop([emails |-> emails, current_email |-> current_email,
                           stop |-> FALSE])
  /\ ppc' = "returned"
  /\ UNCHANGED <<output, lines, idx, current_email, other>>
  /\ UNCHANGED <<evars, tvars>>

NextParse ==
  \/ ScanLine
  \/ ReturnEmails

SpecParse == InitParse /\ [][NextParse]_vars

\* the function has no await: once called it runs on to its return
SpecParseLive == SpecParse /\ WF_vars(NextParse)

\* ------------------------------------------------------------ properties
HoldsLock(c) == pc[c] \in {"attempt", "backoff"}
Holders == {c \in Calls : HoldsLock(c)}
Started(c) == pc[c] \in {"attempt", "backoff", "done"}

IsTimeout(o) == o.kind = "raised" /\ o.type = "TimeoutExpired"
IsNonZeroExit(o) == o.kind = "completed" /\ o.returncode # 0
IsZeroExit(o) == o.kind = "completed" /\ o.returncode = 0
IsMissing(o) == o.kind = "raised" /\ o.type = "FileNotFoundError"

\* v is s without its leading and trailing whitespace, said without strip
IsTrimOf(v, s) ==
  \E i \in 1..(Len(s) + 1) :
    \E j \in (i - 1)..Len(s) :
      /\ v = SubSeq(s, i, j)
      /\ \A k \in 1..(i - 1) : s[k] \in Whitespace
      /\ \A k \in (j + 1)..Len(s) : s[k] \in Whitespace
      /\ v # <<>> => (v[1] \notin Whitespace /\ v[Len(v)] \notin Whitespace)

\* C1: with any number of concurrent callers and any outcome of each
\* attempt, at most one call holds the lock, at most one osascript process
\* is alive, and a live process belongs to the call that holds the lock.
C1_OneInvocationAtATime ==
  /\ Cardinality(Holders) <= 1
  /\ Cardinality(running) <= 1
  /\ running \subseteq Holders
  /\ Holders # {} => _applescript_lock.locked

\* one call has its attempt in flight while another caller waits for the lock
C1_Witness ==
  \E c, d \in Calls :
    /\ c # d
    /\ pc[c] = "attempt" /\ c \in running
    /\ pc[d] = "waiting"

\* C2: from its first attempt to its final outcome a call holds the lock
\* without a gap, and while it does (in flight or in its backoff wait) no
\* other call starts an interpreter invocation.
C2_LockHeldAcrossRetries ==
  [][\A c \in Calls :
       HoldsLock(c) =>
         /\ _applescript_lock.locked
         /\ HoldsLock(c)' => _applescript_lock'.locked
         /\ \A d \in Calls \ {c} :
              /\ invocations'[d] = invocations[d]
              /\ d \notin running']_vars

\* a call is in its backoff wait after a timeout while another caller waits
C2_Witness ==
  \E c, d \in Calls :
    /\ c # d
    /\ pc[c] = "backoff" /\ Len(waits[c]) >= 1
    /\ pc[d] = "waiting"

\* C3: once a call has finished, by success or by any kind of failure, it
\* no longer owns the lock: the lock is locked only while some unfinished
\* call is between its first attempt and its outcome, and a free lock with
\* waiters has woken the first of them, so a later call acquires it.
C3_LockFreeAfterFinish ==
  /\ _applescript_lock.locked => Holders # {}
  /\ (\A c \in Calls : pc[c] \in {"idle", "done"}) =>
       /\ ~_applescript_lock.locked
       /\ _applescript_lock.waiters = <<>>
  /\ (~_applescript_lock.locked /\ _applescript_lock.waiters # <<>>) =>
       _applescript_lock.fut[Head(_applescript_lock.waiters)] = "done"

\* a call has failed and a later call has acquired the lock after it and
\* finished as well, leaving the lock free
C3_Witness ==
  \E c, d \in Calls :
    /\ c # d
    /\ pc[c] = "done" /\ ret[c].status = "raise"
    /\ pc[d] = "done" /\ invocations[d] >= 1
    /\ ~_applescript_lock.locked

\* C4: also when a caller is cancelled while its attempt is in flight, at
\* most one interpreter process is alive, and a live process belongs to the
\* call that holds the lock.
C4_OneInvocationUnderCancellation ==
  /\ Cardinality(running) <= 1
  /\ running \subseteq Holders

\* C5: an attempt that ends with a non-zero exit status, first or after
\* earlier timeouts, is the call's last: the call has failed with the script
\* error of that attempt, with no further invocation and no further wait.
C5_NonZeroExitFailsAtOnce ==
  \A c \in Calls :
    \A i \in DOMAIN outcomes[c] :
      IsNonZeroExit(outcomes[c][i]) =>
        /\ i = Len(outcomes[c])
        /\ pc[c] = "done"
        /\ invocations[c] = i
        /\ Len(waits[c]) = i - 1
        /\ ret[c].status = "raise"
        /\ SubSeq(ret[c].value, 1, 2) = <<"AppleScript error", " (code ">>
        /\ ret[c].value[3] = Digits[outcomes[c][i].returncode + 1]

\* a call has failed with a script error on an attempt that followed a timeout
C5_Witness ==
  \E c \in Calls :
    /\ Len(outcomes[c]) >= 2
    /\ IsTimeout(outcomes[c][1])
    /\ IsNonZeroExit(outcomes[c][Len(outcomes[c])])
    /\ pc[c] = "done"

\* C6: a call whose attempts 1 and 2 time out and whose attempt 3 exits
\* with status 0 has made exactly 3 invocations, has waited 2 and then 4
\* seconds, and returns success; the wait after the attempt with zero-based
\* index k is always 2 * 2^k.
C6_BackoffTwoThenFour ==
  \A c \in Calls :
    /\ \A k \in DOMAIN waits[c] :
         /\ k = 1 => waits[c][k] = 2
         /\ k = 2 => waits[c][k] = 4
         /\ k >= 3 => waits[c][k] = 2 * waits[c][k - 1]
    /\ ( /\ Len(outcomes[c]) = 3
         /\ IsTimeout(outcomes[c][1])
         /\ IsTimeout(outcomes[c][2])
         /\ IsZeroExit(outcomes[c][3]) ) =>
           /\ invocations[c] = 3
           /\ waits[c] = <<2, 4>>
           /\ pc[c] = "done"
           /\ ret[c].status = "return"

\* a call has succeeded on its third attempt after two timeouts
C6_Witness ==
  \E c \in Calls :
    /\ Len(outcomes[c]) = 3
    /\ IsTimeout(outcomes[c][1])
    /\ IsTimeout(outcomes[c][2])
    /\ IsZeroExit(outcomes[c][3])
    /\ pc[c] = "done"

\* C7: a call whose 3 attempts all time out has failed after exactly 3
\* invocations and 2 waits with the message saying that Apple Mail may be
\* unresponsive, and no call ever fails with the fall-through message that
\* follows the loop.
C7_ExhaustedTimeouts ==
  \A c \in Calls :
    /\ invocations[c] <= 3
    /\ ( /\ Len(outcomes[c]) = 3
         /\ \A i \in 1..3 : IsTimeout(outcomes[c][i]) ) =>
           /\ pc[c] = "done"
           /\ invocations[c] = 3
           /\ Len(waits[c]) = 2
           /\ ret[c].status = "raise"
           /\ ret[c].value =
                <<"AppleScript execution timed out after ", "3",
                  " attempts. ", "Apple Mail may be unresponsive.">>
    /\ ret[c].value # <<>> =>
         ret[c].value[1] # "AppleScript execution failed after "

\* a call has used up its three attempts on timeouts
C7_Witness ==
  \E c \in Calls :
    /\ Len(outcomes[c]) = 3
    /\ \A i \in 1..3 : IsTimeout(outcomes[c][i])
    /\ pc[c] = "done"

\* C8: a call whose first attempt exits with status 0 has made exactly one
\* invocation and returns that invocation's standard output without its
\* leading and trailing whitespace.
C8_FirstAttemptSuccess ==
  \A c \in Calls :
    (Len(outcomes[c]) >= 1 /\ IsZeroExit(outcomes[c][1])) =>
      /\ Len(outcomes[c]) = 1
      /\ invocations[c] = 1
      /\ waits[c] = <<>>
      /\ pc[c] = "done"
      /\ ret[c].status = "return"
      /\ IsTrimOf(ret[c].value, outcomes[c][1].stdout)

\* a call has succeeded at once on output with whitespace on both sides
C8_Witness ==
  \E c \in Calls :
    /\ Len(outcomes[c]) = 1
    /\ IsZeroExit(outcomes[c][1])
    /\ outcomes[c][1].stdout = <<" ", "a", " ">>
    /\ ret[c] = [status |-> "return", value |-> <<"a">>]

\* C9: a call that has started makes at least 1 and at most 3 invocations,
\* and every invocation but its last one timed out: only a timeout is
\* followed by another attempt.
C9_OnlyTimeoutsRetried ==
  \A c \in Calls :
    /\ Started(c) => (invocations[c] >= 1 /\ invocations[c] <= 3)
    /\ invocations[c] =
         Len(outcomes[c]) + (IF pc[c] = "attempt" THEN 1 ELSE 0)
    /\ \A n \in 1..invocations[c] :
         \A i \in 1..(n - 1) : IsTimeout(outcomes[c][i])

\* a call is making its third invocation after two timeouts
C9_Witness ==
  \E c \in Calls :
    /\ invocations[c] = 3
    /\ pc[c] = "attempt"
    /\ IsTimeout(outcomes[c][1])
    /\ IsTimeout(outcomes[c][2])

\* C10: an attempt that finds no interpreter binary, whichever attempt it
\* is, is the call's last: the call has failed with the interpreter-missing
\* message, with no further invocation and no further wait.
C10_MissingInterpreterFailsAtOnce ==
  \A c \in Calls :
    \A i \in DOMAIN outcomes[c] :
      IsMissing(outcomes[c][i]) =>
        /\ i = Len(outcomes[c])
        /\ pc[c] = "done"
        /\ invocations[c] = i
        /\ Len(waits[c]) = i - 1
        /\ ret[c] =
             [status |-> "raise",
              value |-> <<"osascript not found. This tool requires macOS with AppleScript support.">>]

\* a call has failed for a missing interpreter on an attempt after a timeout
C10_Witness ==
  \E c \in Calls :
    /\ Len(outcomes[c]) >= 2
    /\ IsTimeout(outcomes[c][1])
    /\ IsMissing(outcomes[c][Len(outcomes[c])])
    /\ pc[c] = "done"

IsUnexpected(o) ==
  o.kind = "raised" /\ o.type \notin {"TimeoutExpired", "FileNotFoundError"}

\* C11: an attempt that fails in any way other than a non-zero exit, a
\* timeout or a missing interpreter is the call's last, and the call has
\* failed with 'AppleScript execution failed: ' followed by the failure's
\* own text, whatever that text is.
C11_UnexpectedFailureIsUnknown ==
  \A c \in Calls :
    \A i \in DOMAIN outcomes[c] :
      IsUnexpected(outcomes[c][i]) =>
        /\ i = Len(outcomes[c])
        /\ pc[c] = "done"
        /\ invocations[c] = i
        /\ ret[c] =
             [status |-> "raise",
              value |-> <<"AppleScript execution failed: ">>
                          \o outcomes[c][i].msg]

\* C12: a call returns success only if its last invocation exited with
\* status 0, and then returns that invocation's output (trimmed); every
\* attempt that ends in a failure other than a timeout leaves the call
\* failed with a message.
C12_NoFailureSwallowed ==
  \A c \in Calls :
    /\ ret[c].status = "return" =>
         /\ pc[c] = "done"
         /\ outcomes[c] # <<>>
         /\ IsZeroExit(outcomes[c][Len(outcomes[c])])
         /\ IsTrimOf(ret[c].value, outcomes[c][Len(outcomes[c])].stdout)
    /\ \A i \in DOMAIN outcomes[c] :
         (~IsZeroExit(outcomes[c][i]) /\ ~IsTimeout(outcomes[c][i])) =>
           /\ pc[c] = "done"
           /\ ret[c].status = "raise"
           /\ ret[c].value # <<>>

\* a call has returned the output of its second invocation after a timeout
C12_Witness ==
  \E c \in Calls :
    /\ Len(outcomes[c]) = 2
    /\ IsTimeout(outcomes[c][1])
    /\ IsZeroExit(outcomes[c][2])
    /\ outcomes[c][2].stdout = <<"\f", "a", "U+0085", "\n">>
    /\ ret[c] = [status |-> "return", value |-> <<"a">>]

\* C13: every call that holds the lock eventually has its outcome, given
\* that every invocation and every backoff wait ends.
C13_CallTerminates ==
  \A c \in Calls : HoldsLock(c) ~> (pc[c] = "done")

\* a call has its outcome after going twice round the retry loop
C13_Witness ==
  \E c \in Calls :
    /\ pc[c] = "done"
    /\ Len(waits[c]) = MAX_RETRIES - 1
    /\ ret[c].status # "none"

\* C14: every caller waiting for the lock eventually acquires it and starts
\* its first attempt, also while other callers keep calling again, given
\* that every lock holder finishes and no caller is cancelled.
C14_NoWaiterStarves ==
  \A c \in Calls : (pc[c] = "waiting") ~> (pc[c] = "attempt")

\* a caller that called again queues behind a waiter that has been woken
\* but has not yet resumed, although the lock is unlocked at that moment
C14_Witness ==
  \E c, d \in Calls :
    /\ c # d
    /\ ~_applescript_lock.locked
    /\ Len(_applescript_lock.waiters) >= 2
    /\ _applescript_lock.waiters[1] = c
    /\ _applescript_lock.waiters[Len(_applescript_lock.waiters)] = d
    /\ _applescript_lock.fut[c] = "done"
    /\ _applescript_lock.fut[d] = "pending"

\* C15: the failure message for a non-zero exit holds the exit code and
\* the trimmed standard error, and holds the placeholder 'Unknown
\* AppleScript error' whenever the standard error has no text to show,
\* empty or whitespace only.
C15_ScriptErrorMessage ==
  \A c \in Calls :
    \A i \in DOMAIN outcomes[c] :
      IsNonZeroExit(outcomes[c][i]) =>
        ret[c].value =
          <<"AppleScript error", " (code ",
            Digits[outcomes[c][i].returncode + 1], "): ">>
            \o (IF strip(outcomes[c][i].stderr) = <<>>
                  THEN <<"Unknown AppleScript error">>
                  ELSE strip(outcomes[c][i].stderr))

\* ------------------------------------------- properties of parse_email_list
\* the line at position k as the loop sees it
Stripped(k) == strip(lines[k])

IsRecordStart(line) ==
  line # <<>> /\ line[1] \in {ENVELOPE, CHECK}

IsFieldLine(line) ==
  \/ StartsWith(line, FROM_PREFIX)
  \/ StartsWith(line, DATE_PREFIX)
  \/ StartsWith(line, PREVIEW_PREFIX)

IsTotalLine(line) == StartsWith(line, TOTAL_PREFIX)

\* lines the loop has taken so far
Scanned == IF ppc = "off" THEN 0 ELSE idx - 1

\* the open record, if any, joins the list
WithOpenRecord(list, email) ==
  IF email = EmptyEmail THEN list ELSE Append(list, email)

\* C16: as long as no record-start line has been scanned, no record is open
\* and the result is empty, whatever From:, Date: or Preview: lines came.
C16_FieldLineWithoutRecordIgnored ==
  (\A k \in 1..Scanned : ~IsRecordStart(Stripped(k))) =>
    /\ current_email = EmptyEmail
    /\ emails = <<>>

\* C17: the empty string gives no record, and a text of two record-start
\* lines, equal or different, gives two records, each holding only its
\* subject and its read flag.
C17_EmptyAndTwoRecordStarts ==
  ppc = "returned" =>
    /\ output = <<>> => emails = <<>>
    /\ ( /\ Len(lines) = 2
         /\ IsRecordStart(Stripped(1))
         /\ IsRecordStart(Stripped(2)) ) =>
           /\ Len(emails) = 2
           /\ \A k \in 1..2 : emails[k].keys = {"subject", "is_read"}

\* C18: for a text with no TOTAL EMAILS line and at least one record-start
\* line, the statements after the loop append the open record, which is
\* then the last element of the result.
C18_LastRecordAppendedAtEnd ==
  [][( /\ ppc = "after_loop"
       /\ \A k \in DOMAIN lines : ~IsTotalLine(Stripped(k))
       /\ \E k \in DOMAIN lines : IsRecordStart(Stripped(k)) ) =>
         /\ emails' = Append(emails, current_email)
         /\ emails'[Len(emails')] = current_email]_vars

\* the position of the first TOTAL EMAILS line, or 0
FirstTotal ==
  IF \E k \in DOMAIN lines : IsTotalLine(Stripped(k))
    THEN CHOOSE k \in DOMAIN lines :
           /\ IsTotalLine(Stripped(k))
           /\ \A j \in 1..(k - 1) : ~IsTotalLine(Stripped(j))
    ELSE 0

\* the text cut off just after its first TOTAL EMAILS line
CutAfterTotal ==
  IF FirstTotal = 0 THEN output ELSE Join(SubSeq(lines, 1, FirstTotal))

\* C19: a TOTAL EMAILS line appends the open record, if any, and ends the
\* scan; nothing is appended after it, and the result is the result for
\* the text cut off just after that line.
C19_TotalEndsScan ==
  [][/\ (ppc = "scan" /\ IsTotalLine(Stripped(idx))) =>
          /\ emails' = WithOpenRecord(emails, current_email)
          /\ current_email' = current_email
          /\ ppc' = "after_loop"
     /\ (ppc = "after_loop" /\ IsTotalLine(Stripped(idx - 1))) =>
          emails' = emails
     /\ (ppc = "after_loop" /\ FirstTotal # 0) =>
          /\ FirstTotal = idx - 1
          /\ emails' = parse_email_list(CutAfterTotal)]_vars

\* a record was open at a TOTAL EMAILS line, a record-start line follows
\* it, and the result holds the one record
C19_Witness ==
  /\ ppc = "returned"
  /\ Len(lines) = 3
  /\ IsRecordStart(Stripped(1))
  /\ IsTotalLine(Stripped(2))
  /\ IsRecordStart(Stripped(3))
  /\ Len(emails) = 1
  /\ emails[1].keys = {"subject", "is_read"}

\* C20: a record-start line appends the record open before it, if any, and
\* opens a record whose is_read tells the marker and whose subject is the
\* rest of the line after the marker, trimmed.
C20_RecordStartOpensRecord ==
  [][(ppc = "scan" /\ IsRecordStart(Stripped(idx))) =>
       /\ emails' = WithOpenRecord(emails, current_email)
       /\ current_email' =
            [EmptyEmail EXCEPT
               !.keys = {"subject", "is_read"},
               !.is_read = (Stripped(idx)[1] = CHECK),
               !.subject = strip(Slice(Stripped(idx), 1))]]_vars

\* the key a From:, Date: or Preview: line assigns
FieldKey(line) ==
  IF StartsWith(line, FROM_PREFIX) THEN "sender"
  ELSE IF StartsWith(line, DATE_PREFIX) THEN "date"
  ELSE "preview"

\* the text of a field line after its prefix
FieldRest(line) ==
  IF StartsWith(line, PREVIEW_PREFIX) THEN Slice(line, Len(PREVIEW_PREFIX))
  ELSE Slice(line, Len(FROM_PREFIX))

FieldNames == {"subject", "is_read", "sender", "date", "preview"}

\* C21: a From:, Date: or Preview: line scanned while a record is open sets
\* that record's sender, date or preview to the rest of the line, trimmed,
\* and changes nothing else: the list of records appended so far and the
\* other fields of the open record stay as they were.
C21_FieldLineSetsOneField ==
  [][( /\ ppc = "scan"
       /\ Truthy(current_email)
       /\ IsFieldLine(Stripped(idx)) ) =>
         LET key == FieldKey(Stripped(idx)) IN
         /\ emails' = emails
         /\ current_email'.keys = current_email.keys \cup {key}
         /\ IsTrimOf(current_email'[key], FieldRest(Stripped(idx)))
         /\ \A f \in FieldNames \ {key} :
              current_email'[f] = current_email[f]]_vars

\* two record-start lines and then a padded From: line have been scanned:
\* the first record is in the list, the second is open and has its sender
C21_Witness ==
  /\ Len(lines) = 3
  /\ idx = 4
  /\ IsRecordStart(Stripped(1))
  /\ IsRecordStart(Stripped(2))
  /\ lines[3] # Stripped(3)
  /\ StartsWith(Stripped(3), FROM_PREFIX)
  /\ Len(emails) = 1
  /\ current_email.keys = {"subject", "is_read", "sender"}
  /\ current_email.sender = <<"x">>

\* a blank line, a decoration line, or a line with no marker and no prefix
IsNoise(line) ==
  \/ line = <<>>
  \/ line[1] \in {"=", HEAVY_LINE, E_MAIL, WARNING}
  \/ ~(IsRecordStart(line) \/ IsFieldLine(line) \/ IsTotalLine(line))

\* the list of lines without the line at position k
RemoveAt(ls, k) == SubSeq(ls, 1, k - 1) \o SubSeq(ls, k + 1, Len(ls))

\* C22: a blank line, a line beginning with =, U+2501, U+1F4E7 or U+26A0,
\* and a non-blank line with no marker and no prefix leave the list and the
\* open record as they are and do not end the scan; the result for a text
\* equals the result for the text with any one such line taken out.
C22_NoiseLineChangesNothing ==
  [][/\ (ppc = "scan" /\ IsNoise(Stripped(idx))) =>
          /\ emails' = emails
          /\ current_email' = current_email
          /\ (idx < Len(lines) => ppc' = "scan")
     /\ ppc' = "returned" =>
          \A k \in DOMAIN lines :
            IsNoise(Stripped(k)) =>
              emails' = parse_email_list(Join(RemoveAt(lines, k)))]_vars

\* a decoration line stood between a record-start line and its From: line,
\* and the one record returned has its sender
C22_Witness ==
  /\ ppc = "returned"
  /\ Len(lines) = 3
  /\ IsRecordStart(Stripped(1))
  /\ StartsWith(Stripped(2), <<WARNING>>)
  /\ StartsWith(Stripped(3), FROM_PREFIX)
  /\ Len(emails) = 1
  /\ emails[1].keys = {"subject", "is_read", "sender"}

\* the record-start lines among the lines scanned, in the order of the text
RecordStartsScanned ==
  SelectSeq([k \in 1..Scanned |-> Stripped(k)], IsRecordStart)

\* a record reduced to its subject and its read flag
Header(email) ==
  [EmptyEmail EXCEPT !.keys = {"subject", "is_read"},
                     !.subject = email.subject,
                     !.is_read = email.is_read]

RECURSIVE IsSubsequence(_, _)
\* a can be had from b by leaving elements out, the order kept
IsSubsequence(a, b) ==
  IF a = <<>> THEN TRUE
  ELSE IF b = <<>> THEN FALSE
  ELSE IF Head(a) = Head(b) THEN IsSubsequence(Tail(a), Tail(b))
  ELSE IsSubsequence(a, Tail(b))

\* C23: the records of the result stand in the order of their record-start
\* lines: the list grows only at its end, by the record open at that step,
\* and the records returned, read by subject and read flag, follow the
\* order of the record-start lines scanned.
C23_RecordsInLineOrder ==
  [][/\ \/ emails' = emails
        \/ emails' = Append(emails, current_email)
     /\ ppc' = "returned" =>
          IsSubsequence(
            [k \in 1..Len(SelectSeq(emails', LAMBDA e : "subject" \in e.keys))
               |-> Header(SelectSeq(emails',
                                    LAMBDA e : "subject" \in e.keys)[k])],
            [k \in 1..Len(RecordStartsScanned)
               |-> new_email(RecordStartsScanned[k])])]_vars

\* three different record-start lines gave three records in their order
C23_Witness ==
  /\ ppc = "returned"
  /\ Len(lines) = 3
  /\ \A k \in 1..3 : IsRecordStart(Stripped(k))
  /\ Stripped(1) # Stripped(2)
  /\ Stripped(2) # Stripped(3)
  /\ Stripped(1) # Stripped(3)
  /\ emails = [k \in 1..3 |-> new_email(Stripped(k))]

\* C24: each record is appended at most once: after a TOTAL EMAILS line has
\* appended the open record the statements after the loop add nothing, and
\* the result has at most one element for each record-start line scanned.
C24_AtMostOnePerRecordStart ==
  [][/\ (ppc = "after_loop" /\ Scanned > 0 /\ IsTotalLine(Stripped(Scanned)))
          => Len(emails') = Len(emails)
     /\ ppc' = "returned" => Len(emails') <= Len(RecordStartsScanned)]_vars

\* --------------------------------------- list_inbox_emails: the text its
\* script prints
MaxRecords == 2

\* a message of an inbox; reading the properties of an unreadable one fails
\* in the inner try, which skips it
SampleMessages ==
  { [subject |-> <<"a">>, sender |-> <<"x">>, date |-> <<"d">>,
     read |-> FALSE, readable |-> TRUE],
    [subject |-> <<"b", " ", "c">>, sender |-> <<"x">>, date |-> <<"d">>,
     read |-> TRUE, readable |-> TRUE],
    [subject |-> <<"a">>, sender |-> <<"x">>, date |-> <<"d">>,
     read |-> FALSE, readable |-> FALSE] }

Inboxes == UNION { [1..n -> SampleMessages] : n \in 0..MaxRecords }

\* an account whose inbox is found
Found(inbox) == [name |-> <<"W">>, found |-> TRUE, inbox |-> inbox]

\* an account for which the inbox discovery raises its error
Lost == [name |-> <<"L">>, found |-> FALSE, inbox |-> <<>>]

\* "every account"
AccountSeqs ==
  {<<>>} \cup { <<Found(ms)>> : ms \in Inboxes }
         \cup { <<Lost, Found(ms)>> : ms \in Inboxes }

\* max_emails: 0 for no limit
Limits == {0, 1}

TITLE ==
  <<
    "I", "N", "B", "O", "X", " ", "E", "M", "A", "I", "L", "S", " ", "-",
    " ", "A", "L", "L", " ", "A", "C", "C", "O", "U", "N", "T", "S" >>

RULE == [i \in 1..40 |-> "="]

HEAVY_RULE == [i \in 1..40 |-> HEAVY_LINE]

ACCOUNT_LABEL ==
  <<
    " ", "A", "C", "C", "O", "U", "N", "T", ":", " " >>

MESSAGES_LABEL ==
  <<
    " ", "m", "e", "s", "s", "a", "g", "e", "s", ")" >>

ERROR_LABEL ==
  <<
    " ", "E", "r", "r", "o", "r", " ", "a", "c", "c", "e", "s", "s", "i",
    "n", "g", " ", "i", "n", "b", "o", "x", " ", "f", "o", "r", " ", "a",
    "c", "c", "o", "u", "n", "t", " " >>

\* the text of the error the inbox discovery raises
NO_INBOX ==
  <<
    "C", "o", "u", "l", "d", " ", "n", "o", "t", " ", "f", "i", "n", "d",
    " ", "i", "n", "b", "o", "x", " ", "f", "o", "r", " ", "a", "c", "c",
    "o", "u", "n", "t", " " >>

Indent == <<" ", " ", " ">>

\* the four lines printed for a message that is included
write_record(m) ==
  << <<IF m.read THEN CHECK ELSE ENVELOPE, " ">> \o m.subject,
     Indent \o FROM_PREFIX \o <<" ">> \o m.sender,
     Indent \o DATE_PREFIX \o <<" ">> \o m.date,
     <<>> >>

\* "if not {include_read} and messageRead then set shouldInclude to false",
\* for a message whose properties were read
shouldInclude(m, include_read) == m.readable /\ (include_read \/ ~m.read)

RECURSIVE write_records(_, _, _, _)
\* the inner repeat from the message at position i on: the lines added and
\* the number added to totalCount
write_records(inbox, i, max_emails, include_read) ==
  IF i > Len(inbox) \/ (max_emails > 0 /\ i > max_emails)
    THEN [lines |-> <<>>, count |-> 0]
    ELSE LET rest == write_records(inbox, i + 1, max_emails, include_read)
         IN IF shouldInclude(inbox[i], include_read)
              THEN [lines |-> write_record(inbox[i]) \o rest.lines,
                    count |-> rest.count + 1]
              ELSE rest

\* one pass of the outer repeat
write_account(a, max_emails, include_read) ==
  IF ~a.found
    THEN [lines |-> << <<WARNING>> \o ERROR_LABEL \o a.name,
                       Indent \o NO_INBOX \o a.name,
                       <<>> >>,
          count |-> 0]
    ELSE IF Len(a.inbox) > 0
      THEN LET body == write_records(a.inbox, 1, max_emails, include_read)
           IN [lines |->
                 << HEAVY_RULE,
                    <<E_MAIL>> \o ACCOUNT_LABEL \o a.name \o <<" ", "(">>
                      \o ToStr(Len(a.inbox)) \o MESSAGES_LABEL,
                    HEAVY_RULE,
                    <<>> >> \o body.lines,
               count |-> body.count]
      ELSE [lines |-> <<>>, count |-> 0]

RECURSIVE write_accounts(_, _, _)
write_accounts(accounts, max_emails, include_read) ==
  IF accounts = <<>> THEN [lines |-> <<>>, count |-> 0]
  ELSE LET first == write_account(Head(accounts), max_emails, include_read)
           rest == write_accounts(Tail(accounts), max_emails, include_read)
       IN [lines |-> first.lines \o rest.lines,
           count |-> first.count + rest.count]

\* the three closing lines
write_total(totalCount) ==
  << RULE, TOTAL_PREFIX \o <<":", " ">> \o ToStr(totalCount), RULE >>

\* outputText as the script returns it; each "& return" ends a line, and the
\* carriage return it adds reaches Python as a line feed, the pipe being
\* read in text mode
write_listing(accounts, max_emails, include_read) ==
  LET body == write_accounts(accounts, max_emails, include_read)
  IN Join(<<TITLE, <<>> >> \o body.lines \o write_total(body.count)
            \o << <<>> >>)

\* what the tool returns when the script succeeds: run_applescript's
\* "return result.stdout.strip()"
list_inbox_emails(accounts, max_emails, include_read) ==
  strip(write_listing(accounts, max_emails, include_read))

Listings ==
  { list_inbox_emails(as, n, ir) :
      as \in AccountSeqs, n \in Limits, ir \in BOOLEAN }

\* ------------------------------------------- writing records and reading
\* them back
\* records with trimmed, non-empty values; sender, date, preview optional
SampleRecords ==
  { [EmptyEmail EXCEPT !.keys = {"subject", "is_read"},
                       !.subject = <<"a">>],
    [EmptyEmail EXCEPT !.keys = {"subject", "is_read"},
                       !.subject = <<"a">>, !.is_read = TRUE],
    [EmptyEmail EXCEPT !.keys = {"subject", "is_read", "sender", "date"},
                       !.subject = <<"a">>, !.sender = <<"x">>,
                       !.date = <<"d">>],
    [EmptyEmail EXCEPT !.keys = FieldNames,
                       !.subject = <<"b", " ", "c">>, !.is_read = TRUE,
                       !.sender = <<"x">>, !.date = <<"d">>,
                       !.preview = <<"p">>] }

RecordSeqs == UNION { [1..n -> SampleRecords] : n \in 0..MaxRecords }

\* The re-serialization the round trip speaks of is no code of the program:
\* it writes a record in the line format parse_email_list reads, a line for
\* each key the record has, and closes the text with the TOTAL EMAILS line
\* or without it.
serialize_record(email) ==
  <<<<IF email.is_read THEN CHECK ELSE ENVELOPE, " ">> \o email.subject>>
  \o (IF "sender" \in email.keys
        THEN <<Indent \o FROM_PREFIX \o <<" ">> \o email.sender>> ELSE <<>>)
  \o (IF "date" \in email.keys
        THEN <<Indent \o DATE_PREFIX \o <<" ">> \o email.date>> ELSE <<>>)
  \o (IF "preview" \in email.keys
        THEN <<Indent \o PREVIEW_PREFIX \o <<" ">> \o email.preview>>
        ELSE <<>>)

RECURSIVE serialize_records(_)
serialize_records(rs) ==
  IF rs = <<>> THEN <<>>
  ELSE serialize_record(Head(rs)) \o serialize_records(Tail(rs))

serialize(rs, with_total) ==
  LET ls == serialize_records(rs) \o
            (IF with_total
               THEN << TOTAL_PREFIX \o <<":", " ">> \o ToStr(Len(rs)) >>
               ELSE <<>>)
  IN Join(ls \o << <<>> >>)

\* the texts given to parse_email_list
SerializedTexts == { serialize(rs, t) : rs \in RecordSeqs, t \in BOOLEAN }

\* a call with the text of a listing or with a re-serialized text
InitRoundTrip ==
  /\ EngineInit
  /\ output \in Listings \cup SerializedTexts
  /\ lines = split(output)
  /\ idx = 1
  /\ emails = <<>>
  /\ current_email = EmptyEmail
  /\ ppc = "scan"
  /\ other = NoOther
  /\ ToolsOff

SpecRoundTrip == InitRoundTrip /\ [][NextParse]_vars

\* C25: writing a sequence of records in the line format of the listings,
\* with or without the closing TOTAL EMAILS line, and parsing the text
\* gives back the sequence written, equal records included.
C25_RoundTrip ==
  ppc = "returned" =>
    \A rs \in RecordSeqs : \A t \in BOOLEAN :
      output = serialize(rs, t) => emails = rs

\* C26: every call of parse_email_list returns, and what it returns is a
\* finite list with at most one record for each line of the text; no line
\* stops it: not a field line ahead of any record, a repeated field line,
\* text after the TOTAL EMAILS line or an unknown line.
C26_ParseAlwaysReturns ==
  /\ [](ppc \in {"scan", "after_loop", "returned"} /\ Len(emails) <= Len(lines))
  /\ <>(ppc = "returned")

\* returned from a text that has the same field line twice ahead of any
\* record, and then an unknown line
C26_Witness ==
  /\ ppc = "returned"
  /\ Len(lines) = 3
  /\ IsFieldLine(Stripped(1))
  /\ Stripped(2) = Stripped(1)
  /\ IsNoise(Stripped(3)) /\ Stripped(3) # <<>>
  /\ Len(emails) = 1

\* ------------------------------------ two calls of parse_email_list, and a
\* call of run_applescript, side by side
fresh_list_shared(left_over) == left_over

\* "emails = []": each call builds its list from nothing, whatever list
\* another call has built or is building
fresh_list(left_over) == <<>>

\* the text of the second call when it is not the text of the first: a
\* record with every field, without the TOTAL EMAILS line
OtherTexts ==
  { serialize(<<r>>, FALSE) : r \in {e \in SampleRecords : e.keys = FieldNames} }

\* the texts of the first call: the records that carry a sender, written
\* with and without a total line
CallTexts ==
  { serialize(rs, t) :
      rs \in UNION { [1..n -> {e \in SampleRecords : "sender" \in e.keys}] :
                      n \in 0..MaxRecords },
      t \in BOOLEAN }

\* the call of run_applescript that runs beside the two calls of the parser
Bystander == CHOOSE c \in Calls : \A d \in Calls : c <= d

\* the first call is under way with a re-serialized text, the second is
\* still to be made, no call of run_applescript has been made
InitParseCalls ==
  /\ EngineInit
  /\ output \in CallTexts
  /\ lines = split(output)
  /\ idx = 1
  /\ emails = <<>>
  /\ current_email = EmptyEmail
  /\ ppc = "scan"
  /\ other = [NoOther EXCEPT !.ppc = "idle"]
  /\ ToolsOff

\* the function is called a second time, from another thread while the
\* first call is under way or after the first call has returned, with the
\* text of the first call or with another
OtherCall ==
  /\ other.ppc = "idle"
  /\ \E text \in {output} \cup OtherTexts :
       other' = [output |-> text,
                 lines |-> split(text),
                 idx |-> 1,
                 emails |-> fresh_list(emails),
                 current_email |-> EmptyEmail,
                 ppc |-> "scan",
                 beside |-> ppc # "returned"]
  /\ UNCHANGED <<output, lines, idx, emails, current_email, ppc>>
  /\ UNCHANGED <<evars, tvars>>

\* one iteration of "for line in lines" of the second call
OtherScanLine ==
  /\ other.ppc = "scan"
  /\ other.idx <= Len(other.lines)
  /\ LET st == loop_body([emails |-> other.emails,
                          current_email |-> other.current_email,
                          stop |-> FALSE], other.lines[other.idx])
     IN other' = [other EXCEPT
                    !.emails = st.emails,
                    !.current_email = st.current_email,
                    !.ppc = IF st.stop \/ other.idx = Len(other.lines)
                              THEN "after_loop" ELSE "scan",
                    !.idx = next_line(@)]
  /\ UNCHANGED <<output, lines, idx, emails, current_email, ppc>>
  /\ UNCHANGED <<evars, tvars>>

\* the statements after the loop, and the return, of the second call
OtherReturn ==
  /\ other.ppc = "after_loop"
  /\ other' = [other EXCEPT
                 !.emails = after_loop([emails |-> other.emails,
                                        current_email |-> other.current_email,
                                        stop |-> FALSE]),
                 !.ppc = "returned"]
  /\ UNCHANGED <<output, lines, idx, emails, current_email, ppc>>
  /\ UNCHANGED <<evars, tvars>>

\* a step of either call of the parser, or of the call of run_applescript
NextParseCalls ==
  \/ ScanLine
  \/ ReturnEmails
  \/ OtherCall
  \/ OtherScanLine
  \/ OtherReturn
  \/ Call(Bystander)
  \/ AttemptEnd(Bystander)
  \/ BackoffEnd(Bystander)

SpecParseCalls == InitParseCalls /\ [][NextParseCalls]_vars

Quote == "\""

\* "{value}" between the double quotes of the fixed text
Quoted(value) == <<Quote>> \o value \o <<Quote>>

\* value.replace('"', '\\"')
escaped(value) ==
  [i \in DOMAIN value |-> IF value[i] = Quote THEN "\\\"" ELSE value[i]]

\* None, or the empty string
Absent == NoText

PlainName == <<"Work">>

\* a name that closes the quote it is put in and goes on with a line of
\* its own
BreakoutName ==
  <<"A", Quote, "\n", "delete", " every message of mailbox ", Quote,
    "Trash", Quote, " of account ", Quote, "A">>

AccountNames == {PlainName, BreakoutName}

OptionalTexts == {Absent, <<"k">>}

CLIPBOARD == "U+1F4CB"

\* the upright of the box drawn around a title
BOX_VERTICAL == "U+2551"

\* "return 'Error: ...'"
ToolError(text) == [kind |-> "error", text |-> text, script |-> <<>>]

\* "result = await run_applescript(script)"
ToolRun(text) == [kind |-> "run", text |-> NoText, script |-> text]

missing_never(value) == FALSE

\* "if not sender", "if not draft_subject", "not subject or not to ..."
missing(value) == value = Absent

\* conditions, joined by ' and ', or 'true'
condition_str(subject_keyword, sender) ==
  LET by_subject == <<"messageSubject contains ">> \o Quoted(subject_keyword)
      by_sender == <<"messageSender contains ">> \o Quoted(sender)
  IN IF ~missing(subject_keyword) /\ ~missing(sender)
       THEN by_subject \o <<" and ">> \o by_sender
     ELSE IF ~missing(subject_keyword) THEN by_subject
     ELSE IF ~missing(sender) THEN by_sender
     ELSE <<"true">>

\* get_mailbox_applescript_snippet("INBOX", "targetAccount", result_var)
mailbox_discovery(result_var) ==
  << <<"set ", result_var, " to missing value">>,
     <<"set ", result_var, " to mailbox inboxName of ", "targetAccount">>,
     <<"if ", result_var, " is missing value then">>,
     <<"error \"Could not find inbox for account\"">>,
     <<"end if">> >>

account_line(account) == <<"set targetAccount to account ">> \o Quoted(account)

\* ------------------------------------------------------ update_email_status
StatusActions == {"mark_read", "mark_unread", "flag", "unflag"}

action_script(action) ==
  IF action = "mark_read" THEN <<"set read status of aMessage to true">>
  ELSE IF action = "mark_unread" THEN <<"set read status of aMessage to false">>
  ELSE IF action = "flag" THEN <<"set flagged status of aMessage to true">>
  ELSE <<"set flagged status of aMessage to false">>

action_label(action) ==
  IF action = "mark_read" THEN "Marked as read"
  ELSE IF action = "mark_unread" THEN "Marked as unread"
  ELSE IF action = "flag" THEN "Flagged"
  ELSE "Unflagged"

update_email_status(r) ==
  IF r.action \notin StatusActions
    THEN ToolError(<<"Error: ", "Invalid action '", r.action,
                     "'. Use: mark_read, mark_unread, flag, unflag">>)
    ELSE ToolRun(Join(
      << <<"tell application \"Mail\"">>,
         <<"set outputText to \"UPDATING EMAIL STATUS: ",
           action_label(r.action), "\" & return & return">>,
         account_line(r.account) >>
      \o mailbox_discovery("targetMailbox") \o
      << <<"set mailboxMessages to every message of targetMailbox">>,
         <<"if ">> \o condition_str(r.subject_keyword, r.sender)
                   \o <<" then">>,
         action_script(r.action),
         <<"end if">>,
         <<"return outputText">>,
         <<"end tell">> >>))

\* ------------------------------------------------------------- manage_trash
\* delete_command of the empty_trash branch
empty_trash_command(confirm) ==
  IF confirm
    THEN << <<"repeat with aMessage in trashMessages">>,
            <<"delete", " aMessage">>,
            <<"end repeat">> >>
    ELSE << <<"--", " deletion skipped (dry run - set confirm=True to execute)">> >>

\* delete_command of the delete_permanent branch
delete_permanent_command(confirm) ==
  IF confirm
    THEN <<"delete", " aMessage">>
    ELSE <<"--", " ", "delete", " aMessage",
           " (dry run - set confirm=True to execute)">>

empty_trash_script(r) ==
  << <<"tell application \"Mail\"">>,
     <<"set outputText to \"EMPTYING TRASH\" & return & return">>,
     account_line(r.account),
     <<"set trashMailbox to mailbox \"Trash\" of targetAccount">>,
     <<"set trashMessages to every message of trashMailbox">>,
     <<"--", " Delete all messages in trash (or preview)">> >>
  \o empty_trash_command(r.confirm) \o
  << <<"set outputText to outputText & ">>
       \o Quoted(IF r.confirm
                   THEN <<CHECK, " Emptied trash for account: {account}">>
                   ELSE <<CLIPBOARD, " PREVIEW - Would empty trash for account: {account} (set confirm=True to execute)">>)
       \o <<" & return">>,
     <<"return outputText">>,
     <<"end tell">> >>

delete_permanent_script(r) ==
  << <<"tell application \"Mail\"">>,
     <<"set outputText to ">>
       \o Quoted(IF r.confirm
                   THEN <<"PERMANENTLY DELETING EMAILS">>
                   ELSE <<"PREVIEW - PERMANENT DELETION (set confirm=True to execute)">>)
       \o <<" & return & return">>,
     account_line(r.account),
     <<"set trashMailbox to mailbox \"Trash\" of targetAccount">>,
     <<"set trashMessages to every message of trashMailbox">>,
     <<"if ">> \o condition_str(r.subject_keyword, r.sender) \o <<" then">>,
     <<"set outputText to outputText & ">>
       \o Quoted(IF r.confirm
                   THEN <<CHECK, " Permanently deleted", ": ">>
                   ELSE <<CLIPBOARD, " Would permanently delete", ": ">>)
       \o <<" & messageSubject & return">>,
     delete_permanent_command(r.confirm),
     <<"end if">>,
     <<"return outputText">>,
     <<"end tell">> >>

move_to_trash_script(r) ==
  << <<"tell application \"Mail\"">>,
     <<"set outputText to \"MOVING EMAILS TO TRASH\" & return & return">>,
     account_line(r.account) >>
  \o mailbox_discovery("sourceMailbox") \o
  << <<"set trashMailbox to mailbox \"Trash\" of targetAccount">>,
     <<"set sourceMessages to every message of sourceMailbox">>,
     <<"if ">> \o condition_str(r.subject_keyword, r.sender) \o <<" then">>,
     <<"--", " Move to trash (safe, reversible action)">>,
     <<"move", " aMessage to trashMailbox">>,
     <<"end if">>,
     <<"return outputText">>,
     <<"end tell">> >>

\* the if / elif / else over action
trash_script(r) ==
  IF r.action = "empty_trash" THEN empty_trash_script(r)
  ELSE IF r.action = "delete_permanent" THEN delete_permanent_script(r)
  ELSE move_to_trash_script(r)

manage_trash_documented_only(r) ==
  IF r.action \in {"empty_trash", "delete_permanent", "move_to_trash"}
    THEN ToolRun(Join(trash_script(r)))
    ELSE ToolError(<<"Error: ", "Invalid action '", r.action, "'">>)

manage_trash(r) == ToolRun(Join(trash_script(r)))

\* ------------------------------------------------------------ manage_drafts
send_command(confirm) ==
  IF confirm
    THEN <<"send", " foundDraft">>
    ELSE <<"--", " ", "send", " foundDraft",
           " (dry run - set confirm=True to send)">>

delete_draft_command(confirm) ==
  IF confirm
    THEN <<"delete", " foundDraft">>
    ELSE <<"--", " ", "delete", " foundDraft",
           " (dry run - set confirm=True to delete)">>

list_drafts_script(r) ==
  << <<"tell application \"Mail\"">>,
     <<"set outputText to ">> \o Quoted(<<"DRAFT EMAILS - ">> \o r.account)
       \o <<" & return & return">>,
     account_line(r.account),
     <<"set draftsMailbox to mailbox \"Drafts\" of targetAccount">>,
     <<"set draftMessages to every message of draftsMailbox">>,
     <<"return outputText">>,
     <<"end tell">> >>

create_draft_script(r) ==
  << <<"tell application \"Mail\"">>,
     <<"set outputText to \"CREATING DRAFT\" & return & return">>,
     account_line(r.account),
     <<"set newDraft to make new outgoing message with properties {subject:">>
       \o Quoted(escaped(r.subject)) \o <<", content:">>
       \o Quoted(escaped(r.body)) \o <<", visible:false}">>,
     <<"set sender of newDraft to targetAccount">>,
     <<"make new to recipient at end of to recipients with properties {address:">>
       \o Quoted(r.to) \o <<"}">>,
     <<"set outputText to outputText & ">>
       \o Quoted(<<"Subject: ">> \o escaped(r.subject)) \o <<" & return">>,
     <<"set outputText to outputText & ">>
       \o Quoted(<<"To: ">> \o r.to) \o <<" & return">>,
     <<"return outputText">>,
     <<"end tell">> >>

\* the script of the send and of the delete branch
found_draft_script(r, header_message, command, status_message) ==
  << <<"tell application \"Mail\"">>,
     <<"set outputText to ">> \o Quoted(header_message)
       \o <<" & return & return">>,
     account_line(r.account),
     <<"set draftsMailbox to mailbox \"Drafts\" of targetAccount">>,
     <<"set draftMessages to every message of draftsMailbox">>,
     <<"if draftSubject contains ">> \o Quoted(r.draft_subject)
       \o <<" then">>,
     <<"set foundDraft to aDraft">>,
     <<"end if">>,
     <<"if foundDraft is not missing value then">>,
     command,
     <<"set outputText to outputText & ">> \o Quoted(status_message)
       \o <<" & return">>,
     <<"else">>,
     <<"set outputText to outputText & ">>
       \o Quoted(<<WARNING, " No draft found matching: ">> \o r.draft_subject)
       \o <<" & return">>,
     <<"end if">>,
     <<"return outputText">>,
     <<"end tell">> >>

manage_drafts(r) ==
  IF r.action = "list" THEN ToolRun(Join(list_drafts_script(r)))
  ELSE IF r.action = "create" THEN
    IF missing(r.subject) \/ missing(r.to) \/ missing(r.body)
      THEN ToolError(<<"Error: ", "'subject', 'to', and 'body' are required for creating drafts">>)
      ELSE ToolRun(Join(create_draft_script(r)))
  ELSE IF r.action = "send" THEN
    IF missing(r.draft_subject)
      THEN ToolError(<<"Error: ", "'draft_subject' is required for sending drafts">>)
      ELSE ToolRun(Join(found_draft_script(r,
             IF r.confirm THEN <<"SENDING DRAFT">>
                          ELSE <<"PREVIEW - SEND DRAFT">>,
             send_command(r.confirm),
             IF r.confirm
               THEN <<CHECK, " Draft sent successfully!">>
               ELSE <<CLIPBOARD, " PREVIEW - Draft found but NOT sent (set confirm=True to send)">>)))
  ELSE IF r.action = "delete" THEN
    IF missing(r.draft_subject)
      THEN ToolError(<<"Error: ", "'draft_subject' is required for deleting drafts">>)
      ELSE ToolRun(Join(found_draft_script(r,
             IF r.confirm THEN <<"DELETING DRAFT">>
                          ELSE <<"PREVIEW - DELETE DRAFT">>,
             delete_draft_command(r.confirm),
             IF r.confirm
               THEN <<CHECK, " Draft deleted successfully!">>
               ELSE <<CLIPBOARD, " PREVIEW - Draft found but NOT deleted (set confirm=True to delete)">>)))
  ELSE ToolError(<<"Error: ", "Invalid action '", r.action,
                   "'. Use: list, create, send, delete">>)

\* ----------------------------------------------------------- get_statistics
\* days_back at its default of 30
date_filter == <<"set targetDate to (current date) - (", "30", " * days)">>
date_check == "and messageDate > targetDate"

get_statistics(r) ==
  IF r.scope = "account_overview" THEN
    ToolRun(Join(
      << <<"tell application \"Mail\"">>,
         <<"set outputText to outputText & ">>
           \o Quoted(<<BOX_VERTICAL, "      EMAIL STATISTICS - ">> \o r.account
                       \o <<"       ", BOX_VERTICAL>>)
           \o <<" & return">>,
         date_filter,
         account_line(r.account),
         <<"set allMailboxes to every mailbox of targetAccount">>,
         <<"if true ", date_check, " then">>,
         <<"end if">>,
         <<"return outputText">>,
         <<"end tell">> >>))
  ELSE IF r.scope = "sender_stats" THEN
    IF missing(r.sender)
      THEN ToolError(<<"Error: ", "'sender' parameter required for sender_stats scope">>)
      ELSE ToolRun(Join(
        << <<"tell application \"Mail\"">>,
           <<"set outputText to \"SENDER STATISTICS\" & return & return">>,
           <<"set outputText to outputText & ">>
             \o Quoted(<<"Sender: ">> \o r.sender) \o <<" & return">>,
           <<"set outputText to outputText & ">>
             \o Quoted(<<"Account: ">> \o r.account)
             \o <<" & return & return">>,
           date_filter,
           account_line(r.account),
           <<"set allMailboxes to every mailbox of targetAccount">>,
           <<"if messageSender contains ">> \o Quoted(r.sender)
             \o <<" ", date_check, " then">>,
           <<"end if">>,
           <<"return outputText">>,
           <<"end tell">> >>))
  ELSE IF r.scope = "mailbox_breakdown" THEN
    ToolRun(Join(
      << <<"tell application \"Mail\"">>,
         <<"set outputText to \"MAILBOX STATISTICS\" & return & return">>,
         <<"set outputText to outputText & \"Mailbox: ", "INBOX",
           "\" & return">>,
         <<"set outputText to outputText & ">>
           \o Quoted(<<"Account: ">> \o r.account)
           \o <<" & return & return">>,
         account_line(r.account) >>
      \o mailbox_discovery("targetMailbox") \o
      << <<"set mailboxMessages to every message of targetMailbox">>,
         <<"return outputText">>,
         <<"end tell">> >>))
  ELSE ToolError(<<"Error: ", "Invalid scope '", r.scope,
                   "'. Use: account_overview, sender_stats, mailbox_breakdown">>)

\* ------------------------------------------------------------ export_emails
\* os.path.expanduser("~/Desktop")
save_dir == <<"$HOME", "/Desktop">>

export_emails(r) ==
  IF r.scope = "single_email" THEN
    IF missing(r.subject_keyword)
      THEN ToolError(<<"Error: ", "'subject_keyword' required for single_email scope">>)
      ELSE ToolRun(Join(
        << <<"tell application \"Mail\"">>,
           <<"set outputText to \"EXPORTING EMAIL\" & return & return">>,
           account_line(r.account) >>
        \o mailbox_discovery("targetMailbox") \o
        << <<"set mailboxMessages to every message of targetMailbox">>,
           <<"if messageSubject contains ">> \o Quoted(r.subject_keyword)
             \o <<" then">>,
           <<"set foundMessage to aMessage">>,
           <<"end if">>,
           <<"set fileName to safeSubject & \".", "txt", "\"">>,
           <<"set filePath to ">> \o Quoted(save_dir \o <<"/">>)
             \o <<" & fileName">>,
           <<"return outputText">>,
           <<"end tell">> >>))
  ELSE IF r.scope = "entire_mailbox" THEN
    ToolRun(Join(
      << <<"tell application \"Mail\"">>,
         <<"set outputText to \"EXPORTING MAILBOX\" & return & return">>,
         account_line(r.account) >>
      \o mailbox_discovery("targetMailbox") \o
      << <<"set mailboxMessages to every message of targetMailbox">>,
         <<"set exportDir to ">>
           \o Quoted(save_dir \o <<"/", "INBOX", "_export">>),
         <<"do shell script \"mkdir -p \" & quoted form of exportDir">>,
         <<"return outputText">>,
         <<"end tell">> >>))
  ELSE ToolError(<<"Error: ", "Invalid scope '", r.scope,
                   "'. Use: single_email, entire_mailbox">>)

\* -------------------------------------------------------- a call of a tool
\* a value of action or scope that no tool documents
UNDOCUMENTED == "archive"

TrashRequests ==
  { [NoRequest EXCEPT !.tool = "manage_trash", !.action = a, !.confirm = cf,
                      !.account = ac, !.subject_keyword = sk, !.sender = s] :
      a \in {"empty_trash", "delete_permanent", "move_to_trash", UNDOCUMENTED},
      cf \in BOOLEAN, ac \in AccountNames,
      sk \in OptionalTexts, s \in OptionalTexts }

DraftRequests ==
  { [NoRequest EXCEPT !.tool = "manage_drafts", !.action = a, !.confirm = cf,
                      !.account = ac, !.subject = su, !.to = t, !.body = b,
                      !.draft_subject = ds] :
      a \in {"list", "create", "send", "delete", UNDOCUMENTED},
      cf \in BOOLEAN, ac \in AccountNames, su \in OptionalTexts,
      t \in OptionalTexts, b \in OptionalTexts, ds \in OptionalTexts }

StatusRequests ==
  { [NoRequest EXCEPT !.tool = "update_email_status", !.action = a,
                      !.account = ac, !.subject_keyword = sk, !.sender = s] :
      a \in StatusActions \cup {UNDOCUMENTED}, ac \in AccountNames,
      sk \in OptionalTexts, s \in OptionalTexts }

StatisticsRequests ==
  { [NoRequest EXCEPT !.tool = "get_statistics", !.scope = sc,
                      !.account = ac, !.sender = s] :
      sc \in {"account_overview", "sender_stats", "mailbox_breakdown",
              UNDOCUMENTED},
      ac \in AccountNames, s \in OptionalTexts }

ExportRequests ==
  { [NoRequest EXCEPT !.tool = "export_emails", !.scope = sc,
                      !.account = ac, !.subject_keyword = sk] :
      sc \in {"single_email", "entire_mailbox", UNDOCUMENTED},
      ac \in AccountNames, sk \in OptionalTexts }

Requests ==
  TrashRequests \cup DraftRequests \cup StatusRequests
    \cup StatisticsRequests \cup ExportRequests

\* the body of the tool a request names
tool_body(r) ==
  IF r.tool = "manage_trash" THEN manage_trash(r)
  ELSE IF r.tool = "manage_drafts" THEN manage_drafts(r)
  ELSE IF r.tool = "update_email_status" THEN update_email_status(r)
  ELSE IF r.tool = "get_statistics" THEN get_statistics(r)
  ELSE export_emails(r)

\* the caller of run_applescript the tool is
ToolCaller == CHOOSE c \in Calls : \A d \in Calls : c <= d

InitTools ==
  /\ EngineInit
  /\ ParserOff
  /\ NoToolCall
  /\ tpc = "idle"

\* the tool is called: it returns its error text at once, or builds its
\* script and enters run_applescript with it
ToolCall ==
  /\ tpc = "idle"
  /\ \E r \in Requests :
       LET out == tool_body(r) IN
       /\ request' = r
       /\ IF out.kind = "error"
            THEN /\ reply' = [status |-> "return", value |-> out.text]
                 /\ script' = <<>>
                 /\ tpc' = "returned"
                 /\ UNCHANGED evars
            ELSE /\ script' = out.script
                 /\ tpc' = "running"
                 /\ UNCHANGED reply
                 /\ Enter(ToolCaller)
  /\ UNCHANGED pvars

\* "return result": run_applescript has returned or raised, and so does
\* the tool
ToolReturn ==
  /\ tpc = "running"
  /\ pc[ToolCaller] = "done"
  /\ reply' = ret[ToolCaller]
  /\ tpc' = "returned"
  /\ UNCHANGED <<request, script>>
  /\ UNCHANGED <<evars, pvars>>

\* the next call of a tool starts from nothing the call before left
ToolAgain ==
  /\ tpc = "returned"
  /\ request' = NoRequest
  /\ script' = <<>>
  /\ reply' = NoResult
  /\ tpc' = "idle"
  /\ pc' = [pc EXCEPT ![ToolCaller] = "idle"]
  /\ attempt' = [attempt EXCEPT ![ToolCaller] = 0]
  /\ last_exception' = [last_exception EXCEPT ![ToolCaller] = NoText]
  /\ invocations' = [invocations EXCEPT ![ToolCaller] = 0]
  /\ outcomes' = [outcomes EXCEPT ![ToolCaller] = <<>>]
  /\ waits' = [waits EXCEPT ![ToolCaller] = <<>>]
  /\ ret' = [ret EXCEPT ![ToolCaller] = NoResult]
  /\ UNCHANGED <<_applescript_lock, running, cancels>>
  /\ UNCHANGED pvars

NextTools ==
  \/ ToolCall
  \/ AttemptEnd(ToolCaller)
  \/ BackoffEnd(ToolCaller)
  \/ ToolReturn
  \/ ToolAgain

SpecTools == InitTools /\ [][NextTools]_vars

\* --------------------------------------------------- properties of the tools
\* the line at position k of the lines ls is a command with one of the given
\* first words: it does not lie within a string
IsCommand(ls, k, words) ==
  /\ ls[k] # <<>>
  /\ ls[k][1] \in words
  /\ Len(SelectSeq(Join(SubSeq(ls, 1, k - 1)), LAMBDA f : f = Quote)) % 2 = 0

HasCommand(text, words) ==
  \E k \in DOMAIN split(text) : IsCommand(split(text), k, words)

Destructive == {"delete", "send"}

\* the actions that ask for confirm
Gated(r) ==
  \/ r.tool = "manage_trash" /\ r.action \in {"empty_trash", "delete_permanent"}
  \/ r.tool = "manage_drafts" /\ r.action \in {"send", "delete"}

\* C28: a script that manage_trash builds for empty_trash or
\* delete_permanent, or manage_drafts for send or delete, and hands to the
\* interpreter holds a delete or send command only if confirm is true; with
\* confirm false a comment stands in its place.
C28_NoDestructiveCommandWithoutConfirm ==
  (tpc \in {"running", "returned"} /\ Gated(request) /\ script # <<>>) =>
    /\ HasCommand(script, Destructive) => request.confirm
    /\ ~request.confirm =>
         \E k \in DOMAIN split(script) :
           /\ Len(split(script)[k]) > 1
           /\ split(script)[k][1] = "--"
           /\ \E i \in DOMAIN split(script)[k] :
                split(script)[k][i] \in Destructive \cup {" deletion skipped (dry run - set confirm=True to execute)"}

\* the requests a tool refuses
Refused(r) ==
  \/ r.tool = "update_email_status"
       /\ r.action \notin {"mark_read", "mark_unread", "flag", "unflag"}
  \/ r.tool = "manage_drafts"
       /\ r.action \notin {"list", "create", "send", "delete"}
  \/ r.tool = "get_statistics"
       /\ r.scope \notin {"account_overview", "sender_stats", "mailbox_breakdown"}
  \/ r.tool = "export_emails"
       /\ r.scope \notin {"single_email", "entire_mailbox"}
  \/ r.tool = "manage_drafts" /\ r.action = "create"
       /\ (r.subject = Absent \/ r.to = Absent \/ r.body = Absent)
  \/ r.tool = "manage_drafts" /\ r.action \in {"send", "delete"}
       /\ r.draft_subject = Absent
  \/ r.tool = "get_statistics" /\ r.scope = "sender_stats"
       /\ r.sender = Absent
  \/ r.tool = "export_emails" /\ r.scope = "single_email"
       /\ r.subject_keyword = Absent

\* C29: called with an action or a scope outside its documented set, or
\* without an argument the action or scope requires, a tool returns a text
\* beginning with "Error: " and hands no script to the interpreter: the
\* lock is not taken, no attempt is made, the engine is as it was.
C29_RefusedCallStartsNothing ==
  [][(tpc = "idle" /\ tpc' # "idle" /\ Refused(request')) =>
       /\ tpc' = "returned"
       /\ reply'.status = "return"
       /\ reply'.value # <<>> /\ reply'.value[1] = "Error: "
       /\ script' = <<>>
       /\ invocations'[ToolCaller] = 0
       /\ ~_applescript_lock'.locked
       /\ evars' = evars]_vars

\* manage_drafts was called for send without draft_subject and has
\* returned its error text
C29_Witness ==
  /\ tpc = "returned"
  /\ request.tool = "manage_drafts"
  /\ request.action = "send"
  /\ request.draft_subject = Absent
  /\ reply.value[1] = "Error: "
  /\ invocations[ToolCaller] = 0

\* C30: manage_trash refuses no action: for every action other than
\* empty_trash and delete_permanent, documented or not, and whatever confirm
\* is, it builds the script that moves the matching messages to the trash
\* and starts an attempt with it.
C30_ManageTrashRejectsNoAction ==
  [][( /\ tpc = "idle" /\ tpc' # "idle"
       /\ request'.tool = "manage_trash"
       /\ request'.action \notin {"empty_trash", "delete_permanent"} ) =>
         /\ tpc' = "running"
         /\ script' = Join(move_to_trash_script(request'))
         /\ HasCommand(script', {"move"})
         /\ pc'[ToolCaller] = "attempt"
         /\ invocations'[ToolCaller] = 1]_vars

\* manage_trash was called with an undocumented action and confirm false,
\* and the move script has run and returned
C30_Witness ==
  /\ tpc = "returned"
  /\ request.tool = "manage_trash"
  /\ request.action = UNDOCUMENTED
  /\ ~request.confirm
  /\ HasCommand(script, {"move"})
  /\ reply.status = "return"
  /\ invocations[ToolCaller] = 1

====
